---- MODULE Spec2Model ----
(***************************************************************************)
(* Model of src/index.tsx: the upload / prompt / generate front-end.       *)
(*                                                                         *)
(* Strings that the code takes apart or puts together are sequences of     *)
(* tokens: "," is a token of its own for split(','), " " is the whitespace *)
(* token for trim(), and a template literal is the concatenation of its    *)
(* pieces.  Messages and opaque payloads are single tokens.                *)
(*                                                                         *)
(* The page is single threaded: every action below is one task of the      *)
(* event loop together with the microtasks (promise continuations) that    *)
(* run before the next task.                                               *)
(*                                                                         *)
(* Spec is the page driven by its events.  DisabledSpec is Spec with the   *)
(* generate button disabled at start, LoadedSpec is Spec without failing   *)
(* preview reads.  UISpec and EncSpec call setLoading and the encoder's    *)
(* onload on their own, from every page state and read result.             *)
(***************************************************************************)
EXTENDS Naturals, Sequences, FiniteSets, Bags

\* ---------------------------------------------------------------- bounds
\* activations of the click handler that may be suspended at the same time
MaxInFlight == 2
\* preview reads that may be pending at the same time
MaxPreviewReads == 2
\* calls of setLoading with the same argument made in a row
MaxRepeat == 2
\* tokens of a read result handed to the encoder's onload on its own
MaxResultLen == 3

\* ---------------------------------------------------------------- values
NoFile == "null"
\* the files the user can pick: an image with content and a zero-byte one
Files == {"road.png", "empty.jpg"}

FileType(f) == IF f = "empty.jpg" THEN "image/jpeg" ELSE "image/png"
FileBase64(f) == IF f = "road.png" THEN <<"AAAA">> ELSE <<>>

\* FileReader.readAsDataURL: the result string handed to onload
readAsDataURL(f) ==
  IF FileBase64(f) = <<>> THEN <<"data:">>
  ELSE <<"data:", FileType(f), ";base64", ",">> \o FileBase64(f)

Whitespace == " "
DefaultPrompt == <<"Show", Whitespace, "the", Whitespace, "same", Whitespace, "highway">>
\* what the user may leave in the prompt text area
PromptValues ==
  { DefaultPrompt, <<>>, <<Whitespace>>, <<Whitespace, "trees", Whitespace>> }

\* String.prototype.trim: what lies between the first and the last token that
\* is not whitespace
trim(s) ==
  LET solid == {i \in 1..Len(s) : s[i] # Whitespace}
  IN  IF solid = {} THEN <<>>
      ELSE SubSeq(s, CHOOSE i \in solid : \A j \in solid : i <= j,
                     CHOOSE i \in solid : \A j \in solid : j <= i)

\* String.prototype.split(','): the list of segments between commas
Commas(s) == {i \in 1..Len(s) : s[i] = ","}
\* the position of the k-th comma of s; 0 and Len(s) + 1 stand for the ends
CommaAt(s, k) ==
  IF k = 0 THEN 0
  ELSE IF k > Cardinality(Commas(s)) THEN Len(s) + 1
  ELSE CHOOSE i \in Commas(s) : Cardinality({j \in Commas(s) : j <= i}) = k
split(s) ==
  [k \in 1..(Cardinality(Commas(s)) + 1) |->
     SubSeq(s, CommaAt(s, k - 1) + 1, CommaAt(s, k) - 1)]

\* ------------------------------------------------------------ thrown values
\* what a promise can reject with: an Error object (detail is its message) or
\* something that is not an Error (detail is what it carries instead)
Thrown(type, detail) == [type |-> type, detail |-> detail]
NoThrown == Thrown("none", "")
DecodeError == Thrown("Error", "Failed to read file as base64.")
\* the ProgressEvent of reader.onerror; reader.error is a NotReadableError
ReadErrorEvent == Thrown("ProgressEvent", "NotReadableError")
ServiceThrown ==
  { Thrown("Error", "503 Service Unavailable"), Thrown("string", "quota") }

\* ---------------------------------------------------------------- responses
TextPart(t) == [inlineData |-> <<>>, text |-> t]
InlinePart(mimeType, data) ==
  [inlineData |-> << [data |-> data, mimeType |-> mimeType] >>, text |-> ""]
png == InlinePart("image/png", "AAAA")
jpeg == InlinePart("image/jpeg", "CCCC")
desc == TextPart("desc")
\* a response is its candidates list; a candidate is its content.parts
Responses ==
  { <<>>,
    << <<>> >>,
    << <<desc>> >>,
    << <<desc, png>> >>,
    << <<jpeg, desc, png>> >> }

\* the first candidate's part list: response.candidates?.[0]?.content?.parts || []
responseParts(response) == IF response = <<>> THEN <<>> ELSE response[1]

\* -------------------------------------------------------------------- state
VARIABLES
  selectedFile,   \* let selectedFile: File | null
  dom,            \* the elements the script holds references to
  previewReads,   \* FileReaders of the change handler still reading, per file
  subs,           \* the activations of the click handler suspended at an await,
                  \* a bag: two of them may be in the same state
  ev,             \* the event handled last: what it delivered, and the
                  \* activation of the click handler that ended in it
  direct          \* a function of the script called on its own, outside the
                  \* handlers: its arguments and what it returned

vars == <<selectedFile, dom, previewReads, subs, ev, direct>>

\* The page as the script finds it.  The markup is not part of the script;
\* the idle look is taken for it (loader hidden, inputs enabled, placeholder
\* shown), and the generate button may start enabled or disabled.
InitialDom(btnDisabled) ==
  [ imageUpload       |-> [disabled |-> FALSE],
    imagePreview      |-> [src |-> <<>>, display |-> "none"],
    uploadPlaceholder |-> [display |-> "block"],
    promptInput       |-> [value |-> <<>>, disabled |-> FALSE],
    generateBtn       |-> [disabled |-> btnDisabled],
    resultPlaceholder |-> [display |-> "block", textContent |-> <<"placeholder">>, color |-> ""],
    resultImage       |-> [src |-> <<>>, display |-> "none"],
    loader            |-> [hidden |-> TRUE] ]

initializeApp(d) == [d EXCEPT !.promptInput.value = DefaultPrompt]

Event(op, response, thrown, done) ==
  [op |-> op, response |-> response, thrown |-> thrown, done |-> done]
\* an event in which no activation of the click handler ended
Other == Event("other", <<>>, NoThrown, <<>>)

\* no function is being called on its own
NoCall == [fn |-> "none"]

Init ==
  /\ direct = NoCall
  /\ selectedFile = NoFile
  /\ \E b \in BOOLEAN : dom = initializeApp(InitialDom(b))
  /\ previewReads = [f \in Files |-> 0]
  /\ subs = EmptyBag
  /\ ev = Other

\* ------------------------------------------------------------------ helpers
Settled(state, value, reason) == [state |-> state, value |-> value, reason |-> reason]
Resolved(v) == Settled("fulfilled", <<v>>, <<>>)
Rejected(e) == Settled("rejected", <<>>, <<e>>)

\* reader.onload as it would be if it tested base64Data !== undefined
encoderOnload_NoEmptyCheck(result, file) ==
  LET segments == split(result)
  IN  IF Len(segments) >= 2
        THEN Resolved([data |-> segments[2], mimeType |-> FileType(file)])
        ELSE Rejected(DecodeError)

\* reader.onload of fileToGenerativePart
encoderOnload(result, file) ==
  LET segments == split(result)
  IN  IF Len(segments) >= 2 /\ segments[2] # <<>>
        THEN Resolved([data |-> segments[2], mimeType |-> FileType(file)])
        ELSE Rejected(DecodeError)

\* reader.onerror of fileToGenerativePart
encoderOnerror(error) == Rejected(error)

\* setLoading as it would be if leaving the loading state forgot the file input
setLoading_FileInputStaysDisabled(d, isLoading, sel) ==
  IF isLoading
    THEN [d EXCEPT !.loader.hidden = FALSE,
                   !.generateBtn.disabled = TRUE,
                   !.promptInput.disabled = TRUE,
                   !.imageUpload.disabled = TRUE]
    ELSE [d EXCEPT !.loader.hidden = TRUE,
                   !.generateBtn.disabled = (sel = NoFile),
                   !.promptInput.disabled = FALSE]

\* setLoading as it would be if leaving the loading state enabled the button
\* without looking at selectedFile
setLoading_AlwaysEnablesButton(d, isLoading, sel) ==
  IF isLoading
    THEN [d EXCEPT !.loader.hidden = FALSE,
                   !.generateBtn.disabled = TRUE,
                   !.promptInput.disabled = TRUE,
                   !.imageUpload.disabled = TRUE]
    ELSE [d EXCEPT !.loader.hidden = TRUE,
                   !.generateBtn.disabled = FALSE,
                   !.promptInput.disabled = FALSE,
                   !.imageUpload.disabled = FALSE]

\* setLoading as it would be with loader.classList.toggle('hidden') in place
\* of remove and add
setLoading_TogglesLoader(d, isLoading, sel) ==
  IF isLoading
    THEN [d EXCEPT !.loader.hidden = ~@,
                   !.generateBtn.disabled = TRUE,
                   !.promptInput.disabled = TRUE,
                   !.imageUpload.disabled = TRUE]
    ELSE [d EXCEPT !.loader.hidden = ~@,
                   !.generateBtn.disabled = (sel = NoFile),
                   !.promptInput.disabled = FALSE,
                   !.imageUpload.disabled = FALSE]

setLoading(d, isLoading, sel) ==
  IF isLoading
    THEN [d EXCEPT !.loader.hidden = FALSE,
                   !.generateBtn.disabled = TRUE,
                   !.promptInput.disabled = TRUE,
                   !.imageUpload.disabled = TRUE]
    ELSE [d EXCEPT !.loader.hidden = TRUE,
                   !.generateBtn.disabled = (sel = NoFile),
                   !.promptInput.disabled = FALSE,
                   !.imageUpload.disabled = FALSE]

displayError(d, message) ==
  [d EXCEPT !.resultImage.display = "none",
            !.resultPlaceholder.display = "block",
            !.resultPlaceholder.textContent = <<"Error: ", message>>,
            !.resultPlaceholder.color = "var(--error-color)"]

\* errorMessage as it would be without the instanceof test
errorMessage_NoInstanceof(error) == error.detail

\* error instanceof Error ? error.message : "An unknown error occurred."
errorMessage(error) ==
  IF error.type = "Error" THEN error.detail ELSE "An unknown error occurred."

\* `data:${mimeType};base64,${base64ImageBytes}`
dataURI(inlineData) == <<"data:", inlineData.mimeType, ";base64,", inlineData.data>>

\* scanParts as it would be without the break: the last inline-data part wins
scanParts_NoBreak(parts) ==
  LET inline == {i \in 1..Len(parts) : parts[i].inlineData # <<>>}
  IN  IF inline = {} THEN 0 ELSE CHOOSE i \in inline : \A j \in inline : j <= i

\* the for loop over the parts: the index of the part it breaks at, 0 if none
scanParts(parts) ==
  LET inline == {i \in 1..Len(parts) : parts[i].inlineData # <<>>}
  IN  IF inline = {} THEN 0 ELSE CHOOSE i \in inline : \A j \in inline : i <= j

\* ----------------------------------------------------- the click handler
\* An activation m = [dom, sub]: the page as the handler leaves it and the
\* handler's own record (its position, its locals, the calls it has made).
NewSub(sel, value) ==
  [pc |-> "validating", file |-> sel, value |-> value, prompt |-> <<>>,
   log |-> <<>>, requests |-> <<>>]

Logged(m, call) == [m EXCEPT !.sub.log = Append(@, call)]
At(m, pc) == [m EXCEPT !.sub.pc = pc]

callDisplayError(m, message) ==
  Logged([m EXCEPT !.dom = displayError(@, message)], "displayError")

callSetLoading(m, isLoading, sel) ==
  Logged([m EXCEPT !.dom = setLoading(@, isLoading, sel)],
         IF isLoading THEN "setLoading(true)" ELSE "setLoading(false)")

\* finally { setLoading(false) }
finallyBlock(m, sel) == callSetLoading(m, FALSE, sel)

\* catchBlock as it would be with setLoading(false) at the end of the try
\* block and no finally
catchBlock_NoFinally(m, error, sel) ==
  callDisplayError(At(Logged(m, "catch"), "failure"), errorMessage(error))

\* catch (error) { ... } finally { ... }
catchBlock(m, error, sel) ==
  finallyBlock(callDisplayError(At(Logged(m, "catch"), "failure"), errorMessage(error)), sel)

\* onClick as it would be without the prompt check
onClick_NoPromptCheck(m, sel) ==
  IF sel = NoFile
    THEN At(callDisplayError(m, "Please upload an image first."), "rejected")
  ELSE LET prompt == trim(m.dom.promptInput.value)
           m1 == callSetLoading([m EXCEPT !.sub.prompt = prompt], TRUE, sel)
           m2 == [m1 EXCEPT !.dom.resultPlaceholder.display = "none",
                            !.dom.resultImage.display = "none"]
       IN  At(Logged(m2, "readAsDataURL"), "encoding")

\* onClick as it would be with the two checks in the other order
onClick_PromptCheckedFirst(m, sel) ==
  LET prompt == trim(m.dom.promptInput.value)
  IN  IF prompt = <<>>
        THEN At(callDisplayError(m, "Please enter a prompt."), "rejected")
      ELSE IF sel = NoFile
        THEN At(callDisplayError(m, "Please upload an image first."), "rejected")
      ELSE LET m1 == callSetLoading([m EXCEPT !.sub.prompt = prompt], TRUE, sel)
               m2 == [m1 EXCEPT !.dom.resultPlaceholder.display = "none",
                                !.dom.resultImage.display = "none"]
           IN  At(Logged(m2, "readAsDataURL"), "encoding")

\* from the click to the first await
onClick(m, sel) ==
  IF sel = NoFile
    THEN At(callDisplayError(m, "Please upload an image first."), "rejected")
  ELSE LET prompt == trim(m.dom.promptInput.value)
       IN  IF prompt = <<>>
             THEN At(callDisplayError(m, "Please enter a prompt."), "rejected")
             ELSE LET m1 == callSetLoading([m EXCEPT !.sub.prompt = prompt], TRUE, sel)
                      m2 == [m1 EXCEPT !.dom.resultPlaceholder.display = "none",
                                       !.dom.resultImage.display = "none"]
                  IN  At(Logged(m2, "readAsDataURL"), "encoding")

\* afterEncoding as it would be if the request were sent a second time
afterEncoding_SentTwice(m, settled, sel) ==
  IF settled.state = "fulfilled"
    THEN LET imagePart == [inlineData |-> settled.value[1]]
             request == [image |-> imagePart, text |-> m.sub.prompt]
         IN  At(Logged(Logged([m EXCEPT !.sub.requests = Append(Append(@, request), request)],
                              "generateContent"),
                       "generateContent"),
                "awaiting")
    ELSE catchBlock(m, settled.reason[1], sel)

\* from the settling of fileToGenerativePart to the second await
afterEncoding(m, settled, sel) ==
  IF settled.state = "fulfilled"
    THEN LET imagePart == [inlineData |-> settled.value[1]]
             request == [image |-> imagePart, text |-> m.sub.prompt]
         IN  At(Logged([m EXCEPT !.sub.requests = Append(@, request)], "generateContent"),
                "awaiting")
    ELSE catchBlock(m, settled.reason[1], sel)

\* afterResponse as it would be if a response without an image were thrown
\* as an Error from inside the try block
afterResponse_ThrowsNoImage(m, settled, sel) ==
  IF settled.state = "fulfilled"
    THEN LET parts == responseParts(settled.value[1])
             i == scanParts(parts)
         IN  IF i # 0
               THEN finallyBlock(
                      At(Logged([m EXCEPT !.dom.resultImage.src = dataURI(parts[i].inlineData[1]),
                                          !.dom.resultImage.display = "block"],
                                "resultImage"),
                         "success"), sel)
               ELSE catchBlock(m,
                      Thrown("Error",
                        "The model did not return an image. Please try a different prompt."),
                      sel)
    ELSE catchBlock(m, settled.reason[1], sel)

\* from the settling of generateContent to the end of the handler
afterResponse(m, settled, sel) ==
  IF settled.state = "fulfilled"
    THEN LET parts == responseParts(settled.value[1])
             i == scanParts(parts)
         IN  IF i # 0
               THEN finallyBlock(
                      At(Logged([m EXCEPT !.dom.resultImage.src = dataURI(parts[i].inlineData[1]),
                                          !.dom.resultImage.display = "block"],
                                "resultImage"),
                         "success"), sel)
               ELSE finallyBlock(
                      callDisplayError(At(m, "failure"),
                        "The model did not return an image. Please try a different prompt."),
                      sel)
    ELSE catchBlock(m, settled.reason[1], sel)

\* ------------------------------------------------------------------ actions
Suspended(sub) == sub.pc \in {"encoding", "awaiting"}
One(sub) == SetToBag({sub})

\* the handler returns to the event loop: a suspended activation waits in
\* subs, one that has run to its end is gone and is remembered by ev alone
Yield(resumed, m, op, response, thrown) ==
  /\ dom' = m.dom
  /\ subs' = (subs (-) resumed) (+) (IF Suspended(m.sub) THEN One(m.sub) ELSE EmptyBag)
  /\ ev' = IF Suspended(m.sub) THEN Other ELSE Event(op, response, thrown, <<m.sub>>)
  /\ UNCHANGED <<selectedFile, previewReads, direct>>

\* the user edits the prompt text area
TypePrompt(value) ==
  /\ ~dom.promptInput.disabled
  /\ value # dom.promptInput.value
  /\ dom' = [dom EXCEPT !.promptInput.value = value]
  /\ ev' = Other
  /\ UNCHANGED <<selectedFile, previewReads, subs, direct>>

\* the number of preview reads in progress
Pending == Cardinality({p \in Files \X (1..MaxPreviewReads) : p[2] <= previewReads[p[1]]})

\* the change handler as it would be with selectedFile = files?.[0] ?? null
Change_ClearsOnEmpty(files) ==
  /\ ~dom.imageUpload.disabled
  /\ ev' = Other
  /\ IF Len(files) > 0
       THEN /\ Pending < MaxPreviewReads
            /\ selectedFile' = files[1]
            /\ previewReads' = [previewReads EXCEPT ![files[1]] = @ + 1]
       ELSE /\ selectedFile' = NoFile
            /\ UNCHANGED previewReads
  /\ UNCHANGED <<dom, subs, direct>>

\* imageUpload 'change': files is the input's file list (empty or one file)
Change(files) ==
  /\ ~dom.imageUpload.disabled
  /\ ev' = Other
  /\ IF Len(files) > 0
       THEN /\ Pending < MaxPreviewReads
            /\ selectedFile' = files[1]
            /\ previewReads' = [previewReads EXCEPT ![files[1]] = @ + 1]
       ELSE UNCHANGED <<selectedFile, previewReads>>
  /\ UNCHANGED <<dom, subs, direct>>

\* reader.onload of the change handler, for a read of file f
PreviewLoad(f) ==
  /\ previewReads[f] > 0
  /\ dom' = [dom EXCEPT !.imagePreview.src = readAsDataURL(f),
                        !.imagePreview.display = "block",
                        !.uploadPlaceholder.display = "none",
                        !.generateBtn.disabled = FALSE]
  /\ previewReads' = [previewReads EXCEPT ![f] = @ - 1]
  /\ ev' = Other
  /\ UNCHANGED <<selectedFile, subs, direct>>

\* the preview read of file f fails: the change handler sets no onerror
PreviewError(f) ==
  /\ previewReads[f] > 0
  /\ previewReads' = [previewReads EXCEPT ![f] = @ - 1]
  /\ ev' = Other
  /\ UNCHANGED <<selectedFile, dom, subs, direct>>

\* A handler's result is bound by \E over a one-element set: it is computed
\* once and then used as a value.
Activation(sub) == [dom |-> dom, sub |-> sub]

\* generateBtn 'click': a disabled button dispatches no click
Click ==
  /\ ~dom.generateBtn.disabled
  /\ \E m \in {onClick(Activation(NewSub(selectedFile, dom.promptInput.value)),
                       selectedFile)} :
       /\ Suspended(m.sub) => BagCardinality(subs) < MaxInFlight
       /\ Yield(EmptyBag, m, "click", <<>>, NoThrown)

\* the encoder's onload as it would be if the handler read selectedFile again
\* when the read completes
EncoderLoad_LiveFile(a) ==
  /\ BagIn(a, subs)
  /\ a.pc = "encoding"
  /\ selectedFile # NoFile
  /\ \E settled \in {encoderOnload(readAsDataURL(selectedFile), selectedFile)} :
       \E m \in {afterEncoding(Activation(a), settled, selectedFile)} :
         Yield(One(a), m, "encoderLoad", <<>>,
               IF settled.state = "rejected" THEN settled.reason[1] ELSE NoThrown)

\* the encoder's reader of activation a fires onload
EncoderLoad(a) ==
  /\ BagIn(a, subs)
  /\ a.pc = "encoding"
  /\ \E settled \in {encoderOnload(readAsDataURL(a.file), a.file)} :
       \E m \in {afterEncoding(Activation(a), settled, selectedFile)} :
         Yield(One(a), m, "encoderLoad", <<>>,
               IF settled.state = "rejected" THEN settled.reason[1] ELSE NoThrown)

\* the encoder's reader of activation a fires onerror
EncoderError(a) ==
  /\ BagIn(a, subs)
  /\ a.pc = "encoding"
  /\ \E settled \in {encoderOnerror(ReadErrorEvent)} :
       \E m \in {afterEncoding(Activation(a), settled, selectedFile)} :
         Yield(One(a), m, "encoderError", <<>>, settled.reason[1])

\* generateContent of activation a resolves with a response
Respond(a, response) ==
  /\ BagIn(a, subs)
  /\ a.pc = "awaiting"
  /\ \E m \in {afterResponse(Activation(a), Resolved(response), selectedFile)} :
       Yield(One(a), m, "response", response, NoThrown)

\* generateContent of activation a rejects
Reject(a, error) ==
  /\ BagIn(a, subs)
  /\ a.pc = "awaiting"
  /\ \E m \in {afterResponse(Activation(a), Rejected(error), selectedFile)} :
       Yield(One(a), m, "rejection", <<>>, error)

Next ==
  \/ \E value \in PromptValues : TypePrompt(value)
  \/ \E files \in {<<>>} \cup {<<f>> : f \in Files} : Change(files)
  \/ \E f \in Files : PreviewLoad(f)
  \/ \E f \in Files : PreviewError(f)
  \/ Click
  \/ \E a \in BagToSet(subs) : EncoderLoad(a)
  \/ \E a \in BagToSet(subs) : EncoderError(a)
  \/ \E a \in BagToSet(subs), response \in Responses : Respond(a, response)
  \/ \E a \in BagToSet(subs), error \in ServiceThrown : Reject(a, error)

Spec == Init /\ [][Next]_vars

\* the states an activation can be suspended in
Encoding ==
  { onClick([dom |-> [initializeApp(InitialDom(FALSE)) EXCEPT !.promptInput.value = v],
             sub |-> NewSub(f, v)], f).sub :
      f \in Files, v \in {w \in PromptValues : trim(w) # <<>>} }
Awaiting ==
  { afterEncoding([dom |-> initializeApp(InitialDom(FALSE)), sub |-> a],
                  encoderOnload(readAsDataURL(a.file), a.file), a.file).sub :
      a \in {b \in Encoding : encoderOnload(readAsDataURL(b.file), b.file).state = "fulfilled"} }

\* every started file read and every issued request completes or fails
Fairness ==
  /\ \A a \in Encoding : WF_vars(EncoderLoad(a) \/ EncoderError(a))
  /\ \A a \in Awaiting :
       WF_vars(\/ \E response \in Responses : Respond(a, response)
               \/ \E error \in ServiceThrown : Reject(a, error))

FairSpec == Spec /\ Fairness

\* the page whose markup has the generate button disabled
InitDisabled == Init /\ dom.generateBtn.disabled

DisabledSpec == InitDisabled /\ [][Next]_vars

\* the program when no preview read fails: every one of them ends in onload
NextLoaded ==
  \/ \E value \in PromptValues : TypePrompt(value)
  \/ \E files \in {<<>>} \cup {<<f>> : f \in Files} : Change(files)
  \/ \E f \in Files : PreviewLoad(f)
  \/ Click
  \/ \E a \in BagToSet(subs) : EncoderLoad(a)
  \/ \E a \in BagToSet(subs) : EncoderError(a)
  \/ \E a \in BagToSet(subs), response \in Responses : Respond(a, response)
  \/ \E a \in BagToSet(subs), error \in ServiceThrown : Reject(a, error)

LoadedSpec == Init /\ [][NextLoaded]_vars

\* ------------------------------------------------- setLoading on its own
\* the page a direct call may find: any state of the loader and of the three
\* controls, any prompt text
UIStates ==
  { [initializeApp(InitialDom(b)) EXCEPT !.loader.hidden = l,
                                           !.promptInput.disabled = p,
                                           !.imageUpload.disabled = u,
                                           !.promptInput.value = v] :
      b \in BOOLEAN, l \in BOOLEAN, p \in BOOLEAN, u \in BOOLEAN, v \in PromptValues }

UIInit ==
  /\ direct = NoCall
  /\ selectedFile \in Files \cup {NoFile}
  /\ dom \in UIStates
  /\ previewReads = [f \in Files |-> 0]
  /\ subs = EmptyBag
  /\ ev = Other

\* the record of a call: its argument, how many calls with this argument
\* have been made in a row, and the page the first of them left
SetLoadingCalled(isLoading, times, first) ==
  [fn |-> "setLoading", isLoading |-> isLoading, times |-> times, first |-> first]

\* setLoading(isLoading) is called, with no event in between
SetLoadingCall(isLoading) ==
  \E after \in {setLoading(dom, isLoading, selectedFile)} :
    /\ dom' = after
    /\ IF direct.fn = "setLoading" /\ direct.isLoading = isLoading
         THEN /\ direct.times < MaxRepeat
              /\ direct' = SetLoadingCalled(isLoading, direct.times + 1, direct.first)
         ELSE direct' = SetLoadingCalled(isLoading, 1, after)
    /\ UNCHANGED <<selectedFile, previewReads, subs, ev>>

UINext == \E isLoading \in BOOLEAN : SetLoadingCall(isLoading)

UISpec == UIInit /\ [][UINext]_vars

\* --------------------------------------- fileToGenerativePart on its own
\* the strings reader.result may hold: what readAsDataURL gives for the
\* files, and every short string of commas and other tokens
ResultTokens == {",", ";base64", "AAAA"}
ReadResults ==
  {readAsDataURL(f) : f \in Files}
    \cup UNION {[1..n -> ResultTokens] : n \in 0..MaxResultLen}

\* a call of fileToGenerativePart(file) whose reader holds result; settled is
\* empty until onload has run
EncoderCalled(file, result, settled) ==
  [fn |-> "fileToGenerativePart", file |-> file, result |-> result, settled |-> settled]

EncInit ==
  /\ direct \in {EncoderCalled(f, r, <<>>) : f \in Files, r \in ReadResults}
  /\ selectedFile = NoFile
  /\ dom = initializeApp(InitialDom(TRUE))
  /\ previewReads = [f \in Files |-> 0]
  /\ subs = EmptyBag
  /\ ev = Other

\* the reader of the call fires onload
EncoderOnloadCall ==
  /\ direct.fn = "fileToGenerativePart"
  /\ direct.settled = <<>>
  /\ direct' = [direct EXCEPT !.settled = <<encoderOnload(direct.result, direct.file)>>]
  /\ UNCHANGED <<selectedFile, dom, previewReads, subs, ev>>

EncNext == EncoderOnloadCall

EncSpec == EncInit /\ [][EncNext]_vars

\* ------------------------------------------------------- properties
\* what the properties say about an activation, stated without the handler's
\* own operators
HasText(value) == \E i \in DOMAIN value : value[i] # Whitespace
Calls(sub, call) == Cardinality({i \in DOMAIN sub.log : sub.log[i] = call})
HasInline(response) ==
  response # <<>> /\ \E i \in DOMAIN response[1] : response[1][i].inlineData # <<>>
InFlight == BagToSet(subs)
\* an activation ran to its end in the event handled last
Ended == ev.done # <<>>
Done == ev.done[1]
Activations == InFlight \cup {ev.done[i] : i \in DOMAIN ev.done}
Shown(message) ==
  /\ dom.resultPlaceholder.textContent = <<"Error: ", message>>
  /\ dom.resultPlaceholder.display = "block"
Controls(d) == <<d.generateBtn.disabled, d.promptInput.disabled, d.imageUpload.disabled>>
\* the same submission: the same file and prompt text taken at the click
Same(a, b) == a.file = b.file /\ a.value = b.value

\* C1: an activation has started the file read or issued a request only if,
\* at its click, a file was selected and the prompt had a token that is not
\* whitespace; a click without them has made no such call.
C1_RequestOnlyWhenValid ==
  \A a \in Activations :
    (Calls(a, "readAsDataURL") > 0 \/ Calls(a, "generateContent") > 0 \/ a.requests # <<>>)
      => (a.file # NoFile /\ HasText(a.value))

C1_Witness ==
  \E a \in InFlight : a.requests # <<>> /\ a.file # NoFile /\ HasText(a.value)

\* a step that is a click on the generate button
ClickStep ==
  \/ ev'.op = "click" /\ ev'.done # <<>>
  \/ BagCardinality(subs') > BagCardinality(subs)

\* C2: a click with no file selected shows "Please upload an image first.",
\* a click with a file and a blank prompt shows "Please enter a prompt."; in
\* both the loader stays hidden, setLoading is not called, and the three
\* controls and the selected file are as before.
C2_RejectedClick ==
  [][ (ClickStep /\ (selectedFile = NoFile \/ ~HasText(dom.promptInput.value)))
        => /\ ev'.op = "click" /\ ev'.done # <<>>
           /\ ev'.done[1].pc = "rejected"
           /\ dom'.resultPlaceholder.textContent =
                <<"Error: ", IF selectedFile = NoFile
                               THEN "Please upload an image first."
                               ELSE "Please enter a prompt.">>
           /\ dom.loader.hidden /\ dom'.loader.hidden
           /\ Calls(ev'.done[1], "setLoading(true)") = 0
           /\ Controls(dom') = Controls(dom)
           /\ selectedFile' = selectedFile
           /\ subs' = subs ]_vars

C2_Witness ==
  /\ ev.op = "click" /\ Ended /\ Done.pc = "rejected"
  /\ Done.file # NoFile
  /\ Shown("Please enter a prompt.")

\* C3: an activation that passed validation has called setLoading(true)
\* once; when it has ended it has called setLoading(false) once, as its last
\* call and right after its outcome, and the loader is hidden.
Outcome == {"resultImage", "displayError"}
C3_BusyOnceClearedOnce ==
  /\ \A a \in InFlight :
       Calls(a, "setLoading(true)") = 1 /\ Calls(a, "setLoading(false)") = 0
  /\ (Ended /\ Done.pc # "rejected")
       => /\ Calls(Done, "setLoading(true)") = 1
          /\ Done.log[1] = "setLoading(true)"
          /\ Calls(Done, "setLoading(false)") = 1
          /\ Done.log[Len(Done.log)] = "setLoading(false)"
          /\ Done.log[Len(Done.log) - 1] \in Outcome
          /\ dom.loader.hidden

C3_Witness ==
  /\ Ended /\ ev.op = "rejection"
  /\ Calls(Done, "setLoading(false)") = 1

\* how the event handled last ended its submission, told from the event
FailedNow ==
  /\ Ended
  /\ \/ ev.op \in {"click", "encoderLoad", "encoderError", "rejection"}
     \/ ev.op = "response" /\ ~HasInline(ev.response)
SucceededNow == Ended /\ ev.op = "response" /\ HasInline(ev.response)

\* C4: a submission that fails (validation, encoder, rejected request,
\* response without an image) calls displayError once and shows no image; one
\* that succeeds shows the image and does not call displayError; a thrown
\* value that is not an Error is shown as "An unknown error occurred.".
C4_OneOutcome ==
  /\ FailedNow
       => /\ Calls(Done, "displayError") = 1
          /\ Calls(Done, "resultImage") = 0
          /\ Done.pc \in {"rejected", "failure"}
          /\ dom.resultPlaceholder.display = "block"
          /\ dom.resultImage.display = "none"
  /\ SucceededNow
       => /\ Calls(Done, "displayError") = 0
          /\ Calls(Done, "resultImage") = 1
          /\ Done.pc = "success"
          /\ dom.resultImage.display = "block"
  /\ (Ended /\ ev.thrown.type \notin {"Error", "none"})
       => Shown("An unknown error occurred.")

C4_Witness ==
  /\ Ended /\ ev.op = "rejection" /\ ev.thrown.type = "string"
  /\ Shown("An unknown error occurred.")

\* C5: when the encoder fails, by finding no payload segment or by the read
\* itself failing, the submission fails and the message shown is the one the
\* encoder's failure carries.
C5_EncoderMessageShown ==
  (Ended /\ ev.op \in {"encoderLoad", "encoderError"})
    => (Done.pc = "failure" /\ Shown(ev.thrown.detail))

\* C6: for a response with an inline-data part, the image source set is
\* "data:" + mimeType + ";base64," + data of the first such part in list
\* order, and the image is shown.
FirstInline(response) ==
  LET parts == response[1]
      i == CHOOSE i \in DOMAIN parts :
             /\ parts[i].inlineData # <<>>
             /\ \A j \in 1..(i - 1) : parts[j].inlineData = <<>>
  IN  parts[i].inlineData[1]
C6_FirstInlinePart ==
  (Ended /\ ev.op = "response" /\ HasInline(ev.response))
    => /\ dom.resultImage.src =
            <<"data:", FirstInline(ev.response).mimeType, ";base64,",
              FirstInline(ev.response).data>>
       /\ dom.resultImage.display = "block"

C6_Witness ==
  /\ Ended /\ ev.op = "response"
  /\ ev.response = << <<jpeg, desc, png>> >>
  /\ dom.resultImage.src = <<"data:", "image/jpeg", ";base64,", "CCCC">>

\* C7: for a response with no inline-data part (text only, no parts, no
\* candidates) the submission fails with "The model did not return an image.
\* Please try a different prompt.", the image is not shown, and the catch
\* block has not run.
C7_NoImageIsFailure ==
  (Ended /\ ev.op = "response" /\ ~HasInline(ev.response))
    => /\ Done.pc = "failure"
       /\ Shown("The model did not return an image. Please try a different prompt.")
       /\ dom.resultImage.display = "none"
       /\ Calls(Done, "catch") = 0

C7_Witness ==
  /\ Ended /\ ev.op = "response" /\ ev.response = <<>>
  /\ Shown("The model did not return an image. Please try a different prompt.")

\* C8: an activation issues no request while its encoder runs or when its
\* encoder failed, and exactly one, after the file read was started and ended,
\* once its encoder succeeded; the request carries what the encoder produced.
Position(sub, call) == CHOOSE i \in DOMAIN sub.log : sub.log[i] = call
IssuedOne(a) ==
  /\ Calls(a, "generateContent") = 1
  /\ Len(a.requests) = 1
  /\ Calls(a, "readAsDataURL") = 1
  /\ Position(a, "readAsDataURL") < Position(a, "generateContent")
  /\ a.requests[1].image.inlineData.data = FileBase64(a.file)
IssuedNone(a) == Calls(a, "generateContent") = 0 /\ a.requests = <<>>
C8_AtMostOneRequest ==
  /\ \A a \in InFlight :
       /\ a.pc = "encoding" => IssuedNone(a)
       /\ a.pc = "awaiting" => IssuedOne(a)
  /\ (Ended /\ ev.op \in {"click", "encoderLoad", "encoderError"}) => IssuedNone(Done)
  /\ (Ended /\ ev.op \in {"response", "rejection"}) => IssuedOne(Done)

C8_Witness ==
  /\ Ended /\ ev.op = "rejection"
  /\ Len(Done.requests) = 1

\* C9: with every file read and request completing, a submission that is
\* suspended ends with busy cleared; when none is in flight the prompt and
\* file inputs are enabled, after a submission has ended the generate button
\* is enabled too, and it stays so until the next submission starts.
C9_EventuallyIdle ==
  /\ \A a \in Encoding \cup Awaiting :
       BagIn(a, subs) ~>
         (Ended /\ Same(Done, a) /\ Done.log[Len(Done.log)] = "setLoading(false)")
  /\ [](subs = EmptyBag => (~dom.promptInput.disabled /\ ~dom.imageUpload.disabled))
  /\ []((subs = EmptyBag /\ Ended /\ Done.pc # "rejected") => ~dom.generateBtn.disabled)
  /\ [][ (subs = EmptyBag /\ ~dom.generateBtn.disabled /\ subs' = EmptyBag)
           => ~dom'.generateBtn.disabled ]_vars

C9_Witness ==
  /\ subs = EmptyBag /\ Ended /\ Done.pc = "failure"
  /\ ~dom.generateBtn.disabled /\ ~dom.promptInput.disabled /\ ~dom.imageUpload.disabled

\* C10: the result image and the placeholder / error text are never both
\* visible.
C10_OneVisualState ==
  ~(dom.resultImage.display = "block" /\ dom.resultPlaceholder.display = "block")

\* C11: setLoading(true) shows the loader and disables the button, the prompt
\* and the file input, whatever the page was before; setLoading(false) hides
\* the loader, enables the prompt and the file input, and leaves the button
\* enabled exactly when a file is selected.
C11_SetLoadingEffect ==
  direct.fn = "setLoading" =>
    IF direct.isLoading
      THEN /\ ~dom.loader.hidden
           /\ dom.generateBtn.disabled
           /\ dom.promptInput.disabled
           /\ dom.imageUpload.disabled
      ELSE /\ dom.loader.hidden
           /\ ~dom.promptInput.disabled
           /\ ~dom.imageUpload.disabled
           /\ ~dom.generateBtn.disabled <=> selectedFile # NoFile

\* setLoading(false) has been called with no file selected
C11_Witness ==
  /\ direct.fn = "setLoading"
  /\ ~direct.isLoading
  /\ selectedFile = NoFile
  /\ dom.generateBtn.disabled
  /\ dom.loader.hidden

\* C12: setLoading is idempotent: after two calls in a row with the same
\* argument the page is as the first call left it.
C12_SetLoadingIdempotent ==
  (direct.fn = "setLoading" /\ direct.times >= 2) => dom = direct.first

\* setLoading(false) was called twice in a row with a file selected
C12_Witness ==
  /\ direct.fn = "setLoading"
  /\ direct.times = 2
  /\ ~direct.isLoading
  /\ selectedFile # NoFile
  /\ ~dom.generateBtn.disabled

\* what the claim calls the payload, stated on the string itself
HasComma(r) == \E i \in DOMAIN r : r[i] = ","
FirstComma(r) == CHOOSE i \in DOMAIN r : r[i] = "," /\ \A j \in 1..(i - 1) : r[j] # ","
AfterFirstComma(r) == IF HasComma(r) THEN SubSeq(r, FirstComma(r) + 1, Len(r)) ELSE <<>>
UpToComma(r) == IF HasComma(r) THEN SubSeq(r, 1, FirstComma(r) - 1) ELSE r
EncoderSettled == direct.fn = "fileToGenerativePart" /\ direct.settled # <<>>
\* the encoder resolved with this payload and the file's type, or failed with
\* the decode error when the payload is empty
SettledWith(payload) ==
  LET s == direct.settled[1]
  IN  IF payload # <<>>
        THEN /\ s.state = "fulfilled"
             /\ s.value[1].data = payload
             /\ s.value[1].mimeType = FileType(direct.file)
        ELSE /\ s.state = "rejected"
             /\ s.reason[1] = [type |-> "Error", detail |-> "Failed to read file as base64."]

Busy ==
  /\ ~dom.loader.hidden
  /\ Controls(dom) = <<TRUE, TRUE, TRUE>>

\* C14: at most one submission is in flight at any time, and while one is in
\* flight the three controls stay disabled and the loader stays shown.
C14_OneSubmissionInFlight ==
  /\ BagCardinality(subs) <= 1
  /\ subs # EmptyBag => Busy

\* C15: while a submission is in flight no step changes selectedFile.
C15_SelectionFixedInFlight ==
  [][ subs # EmptyBag => selectedFile' = selectedFile ]_vars

\* the activations of the click handler that a step has started
Started == {a \in BagToSet(subs') : CopiesIn(a, subs') > CopiesIn(a, subs)}

\* C16: the file an activation encodes and sends is the one that was selected
\* at its click: the click takes selectedFile in the step that validates, and
\* the image part of the request carries that file's content and type,
\* whatever is selected by then.
C16_FileTakenAtClick ==
  /\ [][ ClickStep =>
           /\ \A a \in Started : a.file = selectedFile /\ a.pc = "encoding"
           /\ (ev'.op = "click" /\ ev'.done # <<>>) => ev'.done[1].file = selectedFile
           /\ selectedFile' = selectedFile ]_vars
  /\ [](\A a \in Activations :
           \A i \in DOMAIN a.requests :
             /\ a.requests[i].image.inlineData.data = FileBase64(a.file)
             /\ a.requests[i].image.inlineData.mimeType = FileType(a.file))

\* a request is in flight for a file that is no longer the selected one
C16_Witness ==
  \E a \in InFlight :
    /\ a.pc = "awaiting"
    /\ a.file # selectedFile
    /\ a.requests[1].image.inlineData.data = FileBase64(a.file)

\* C17: when no preview read is pending, the preview shows the file that is
\* selected, in whatever order the reads have completed.
C17_PreviewShowsSelection ==
  (selectedFile # NoFile /\ \A f \in Files : previewReads[f] = 0) =>
    /\ dom.imagePreview.display = "block"
    /\ dom.imagePreview.src = readAsDataURL(selectedFile)

\* C18: with the generate button disabled at start, an enabled button means a
\* file is selected; selectedFile, once a file, is never null again; and no
\* click takes the "Please upload an image first." branch.
C18_EnabledButtonHasFile ==
  /\ [](~dom.generateBtn.disabled => selectedFile # NoFile)
  /\ [][ selectedFile # NoFile => selectedFile' # NoFile ]_vars
  /\ [](/\ \A a \in Activations : a.file # NoFile
        /\ dom.resultPlaceholder.textContent
             # <<"Error: ", "Please upload an image first.">>)

\* a click came through the enabled button and was turned down for its
\* prompt, not for a missing file
C18_Witness ==
  /\ Ended /\ ev.op = "click"
  /\ Done.pc = "rejected"
  /\ Done.file # NoFile
  /\ Shown("Please enter a prompt.")

====
